---- MODULE Spec2Model ----
(***************************************************************************)
(* A model of scripts/cloud-init-upstream-release.py: the persistent stage *)
(* cache (CachedDict), the version heuristics, the release-bug template    *)
(* and the stage driver (main).                                            *)
(***************************************************************************)
EXTENDS Integers, Sequences, FiniteSets, TLC

(***************************************************************************)
(* Python values.  A value is a record [t, s]: its type and its text (a    *)
(* sequence of tokens, see Text below).                                    *)
(***************************************************************************)
PyStr(s) == [t |-> "str", s |-> s]
PyInt(s) == [t |-> "int", s |-> s]
PyTrue == [t |-> "bool", s |-> <<"True">>]
PyNone == [t |-> "NoneType", s |-> <<"None">>]

\* bool(x) as Python's `or`, `not` and `while not` evaluate it
Truthy(x) ==
    CASE x.t = "str" -> x.s # <<>>
      [] x.t = "int" -> x.s # <<"0">>
      [] x.t = "bool" -> x.s = <<"True">>
      [] OTHER -> FALSE

EmptyDict == [k \in {} |-> PyNone]

(***************************************************************************)
(* json.dump / json.load of the cache: a str becomes a JSON string, an int *)
(* a JSON number, True the literal true, None the literal null.            *)
(***************************************************************************)
JsonEncode(x) ==
    CASE x.t = "str" -> [j |-> "string", s |-> x.s]
      [] x.t = "int" -> [j |-> "number", s |-> x.s]
      [] x.t = "bool" -> [j |-> IF x.s = <<"True">> THEN "true" ELSE "false", s |-> <<>>]
      [] OTHER -> [j |-> "null", s |-> <<>>]

JsonDecode(y) ==
    CASE y.j = "string" -> PyStr(y.s)
      [] y.j = "number" -> PyInt(y.s)
      [] y.j = "true" -> PyTrue
      [] y.j = "false" -> [t |-> "bool", s |-> <<"False">>]
      [] OTHER -> PyNone

JsonDump(c) == [v \in DOMAIN c |-> [k \in DOMAIN c[v] |-> JsonEncode(c[v][k])]]

JsonLoad(text) == [v \in DOMAIN text |-> [k \in DOMAIN text[v] |-> JsonDecode(text[v][k])]]

\* two invocations of the script running at once
Procs == {1, 2}

\* CACHE_PATH does not exist
NoFile == [exists |-> FALSE, text |-> EmptyDict]

(***************************************************************************)
(* class CachedDict                                                        *)
(***************************************************************************)
\* __init__: load the whole file (or {}), then add an empty entry for version
CachedDictInit(f, v) ==
    LET loaded == IF f.exists THEN JsonLoad(f.text) ELSE EmptyDict
    IN  IF v \in DOMAIN loaded THEN loaded ELSE (v :> EmptyDict) @@ loaded

\* a plausible slip: the file is opened and left as it was
SaveCacheNoFlush(c, f) == f

\* a plausible slip: the versions this dict lacks are kept from the file
SaveCacheMerge(c, f) == [exists |-> TRUE, text |-> JsonDump(c) @@ f.text]

\* _save_cache: the whole dict is serialised over the file
SaveCache(c, f) == [exists |-> TRUE, text |-> JsonDump(c)]

\* a plausible slip: the version's entry is replaced by the one field
SetItemReplace(c, v, k, x) == [c EXCEPT ![v] = (k :> x)]

\* __setitem__, the in-memory part
SetItem(c, v, k, x) == [c EXCEPT ![v] = (k :> x) @@ c[v]]

\* __getitem__: a KeyError is swallowed and None returned
GetItem(c, v, k) == IF k \in DOMAIN c[v] THEN c[v][k] ELSE PyNone

\* a plausible slip: purge empties nothing
PurgeItemKeep(c, v) == c

\* purge, the in-memory part
PurgeItem(c, v) == [c EXCEPT ![v] = EmptyDict]

(***************************************************************************)
(* Text.  A Python str is a sequence of tokens: single characters, and the *)
(* fixed phrases of BUG_TEMPLATE (none of which begins or ends with white  *)
(* space or contains a line break).                                        *)
(***************************************************************************)
Digits == <<"0", "1", "2", "3", "4", "5", "6", "7", "8", "9">>

IsDigit(c) == \E i \in 1..10 : Digits[i] = c

DigitVal(c) == (CHOOSE i \in 1..10 : Digits[i] = c) - 1

RECURSIVE StrOf(_)
\* str(n) for n >= 0
StrOf(n) == IF n < 10 THEN <<Digits[n + 1]>> ELSE StrOf(n \div 10) \o <<Digits[(n % 10) + 1]>>

\* int(s) accepts s (digits only are modelled; anything else is a ValueError)
IsInt(s) == Len(s) > 0 /\ \A i \in 1..Len(s) : IsDigit(s[i])

RECURSIVE IntOf(_)
IntOf(s) == IF Len(s) = 0 THEN 0 ELSE 10 * IntOf(SubSeq(s, 1, Len(s) - 1)) + DigitVal(s[Len(s)])

\* the characters str.splitlines() breaks a line at (the line feed and the form feed are modelled)
LineBreaks == {"\n", "\f"}

IsSpace(c) == c \in {" ", "\n", "\f"}

RECURSIVE LStrip(_)
LStrip(s) == IF Len(s) > 0 /\ IsSpace(Head(s)) THEN LStrip(Tail(s)) ELSE s

RECURSIVE RStrip(_)
RStrip(s) == IF Len(s) > 0 /\ IsSpace(s[Len(s)]) THEN RStrip(SubSeq(s, 1, Len(s) - 1)) ELSE s

Strip(s) == LStrip(RStrip(s))

RECURSIVE Split(_, _)
\* s.split(sep) for a one-token separator: always at least one part
Split(s, sep) ==
    IF \A i \in 1..Len(s) : s[i] # sep THEN <<s>>
    ELSE LET i == CHOOSE k \in 1..Len(s) : s[k] = sep /\ \A m \in 1..(k - 1) : s[m] # sep
         IN  <<SubSeq(s, 1, i - 1)>> \o Split(SubSeq(s, i + 1, Len(s)), sep)

RECURSIVE Join(_, _)
\* sep.join(parts)
Join(parts, sep) ==
    IF Len(parts) = 0 THEN <<>>
    ELSE IF Len(parts) = 1 THEN parts[1]
    ELSE parts[1] \o <<sep>> \o Join(Tail(parts), sep)

\* s.splitlines(): split at every line break, without a trailing empty line
SplitLines(s) ==
    LET parts == Split([i \in 1..Len(s) |-> IF s[i] \in LineBreaks THEN "\n" ELSE s[i]], "\n")
    IN  IF parts[Len(parts)] = <<>> THEN SubSeq(parts, 1, Len(parts) - 1) ELSE parts

\* s.count(sep)
Count(s, sep) == Cardinality({i \in 1..Len(s) : s[i] = sep})

\* xs[1:]
Rest(xs) == IF Len(xs) = 0 THEN <<>> ELSE Tail(xs)

(***************************************************************************)
(* The version heuristics                                                  *)
(***************************************************************************)
\* int(str(datetime.datetime.now().year)[2:])
CurrentYear(year) == IntOf(SubSeq(StrOf(year), 3, Len(StrOf(year))))

\* response.strip() if response.strip() else likely
Answer(response, likely) == IF Strip(response) # <<>> THEN Strip(response) ELSE likely

\* a plausible slip: `>` for `>=`
get_release_version_gt(old_version, year, response) ==
    LET old_version_parts == Split(old_version, ".")
        old_year == IntOf(old_version_parts[1])
        current_year == CurrentYear(year)
        last == Len(old_version_parts)
        likely == IF old_year > current_year
                  THEN Join([old_version_parts EXCEPT
                                ![last] = StrOf(IntOf(old_version_parts[last]) + 1)], ".")
                  ELSE StrOf(current_year) \o <<".", "1">>
    IN  Answer(response, likely)

get_release_version(old_version, year, response) ==
    LET old_version_parts == Split(old_version, ".")
        old_year == IntOf(old_version_parts[1])
        current_year == CurrentYear(year)
        last == Len(old_version_parts)
        likely == IF old_year >= current_year
                  THEN Join([old_version_parts EXCEPT
                                ![last] = StrOf(IntOf(old_version_parts[last]) + 1)], ".")
                  ELSE StrOf(current_year) \o <<".", "1">>
    IN  Answer(response, likely)

get_next_version(current_version, year, response) ==
    LET current_version_parts == Split(current_version, ".")
        yy == IntOf(current_version_parts[1])
        minor == IntOf(current_version_parts[2])
        likely == IF minor > 3
                  THEN StrOf(CurrentYear(year) + 1) \o <<".", "1">>
                  ELSE StrOf(yy) \o <<".">> \o StrOf(minor + 1)
    IN  Answer(response, likely)

\* a plausible slip: any separator makes a point release
is_point_release_any(v) == Count(v, ".") > 0

is_point_release(v) == Count(v, ".") > 1

(***************************************************************************)
(* BUG_TEMPLATE and its two readers                                        *)
(***************************************************************************)
HdrNotes == "== Release Notes =="
HdrChangelog == "== Changelog =="

\* the text of BUG_TEMPLATE between its two headers, formatted
TemplateNotes(r) ==
    <<"\n", "\n", "Cloud-init release", " ">> \o r.NEW_RELEASE
      \o <<" ", "is now available", "\n", "\n", "The", " ">> \o r.NEW_RELEASE
      \o <<" ", "release:", "\n", " ", "* spanned about", " ">> \o r.RELEASE_TIME_SPAN
      \o <<"\n", " ", "* had", " ">> \o r.NUM_CONTRIBUTORS
      \o <<" ", "contributors from", " ">> \o r.NUM_DOMAINS
      \o <<" ", "domains", "\n", " ", "* fixed", " ">> \o r.NUM_BUGS
      \o <<" ", "Launchpad issues", "\n", "\n", "Highlights:", "\n", " ", " ",
           "<TODO_SUMMARIZED_HIGHLIGHTS>", "\n", "\n">>

\* BUG_TEMPLATE.format(...)
BugTemplateFormat(r) ==
    <<HdrNotes>> \o TemplateNotes(r) \o <<HdrChangelog, "\n">> \o r.CHANGELOG \o <<"\n">>

\* upload_to_launchpad, lines 348-353: the split of the stored description
SplitDescription(bug_description) ==
    LET outer == Split(bug_description, HdrNotes)
        inner == Split(outer[2], HdrChangelog)
    IN  IF Len(outer) < 2
        THEN [error |-> "IndexError", release_notes |-> <<>>, changelog |-> <<>>]
        ELSE IF Len(inner) # 2
        THEN [error |-> "ValueError", release_notes |-> <<>>, changelog |-> <<>>]
        ELSE [error |-> "none",
              release_notes |-> Strip(inner[1]),
              changelog |-> RStrip(Join(Rest(SplitLines(inner[2])), "\n"))]

(***************************************************************************)
(* The stage driver: operators of main() and of the functions it calls     *)
(***************************************************************************)
\* str.lower(), for the letters the operator's answers use
Lower(s) == [i \in 1..Len(s) |-> IF s[i] = "Y" THEN "y" ELSE IF s[i] = "N" THEN "n" ELSE s[i]]

\* a plausible slip: every answer counts as a yes
affirmativeAlways(response) == TRUE

affirmative(response) == Lower(response) = <<"y">> \/ Strip(response) = <<>>

\* a plausible slip: the merge confirmation read with affirmative(), blank is yes
mergedBlankIsYes(response) == Lower(response) = <<"y">> \/ Strip(response) = <<>>

\* the merge confirmation of main: response.lower() != "y" exits
merged(response) == Lower(response) = <<"y">>

PremergeStages == {"all", "create-release-bug", "prepare-git-branch"}

Stages ==
    {"all", "create-release-bug", "prepare-git-branch", "build-and-upload", "tag-release",
     "close-all-bugs", "upload-copr", "email", "purge-cache"}

\* a plausible slip: the premerge-complete flag is not consulted
PremergePendingNoFlag(st, c, v) == st \in PremergeStages

\* main, lines 541-544: the guard of the pre-merge block
PremergePending(st, c, v) ==
    st \in PremergeStages /\ GetItem(c, v, "premerge-complete") # PyTrue

\* a plausible slip: a missing bug_id is read as bug 0
IntConvNoneIsZero(x) ==
    CASE x.t = "int" -> [error |-> "none", val |-> x]
      [] x.t = "str" -> IF IsInt(Strip(x.s)) THEN [error |-> "none", val |-> PyInt(Strip(x.s))]
                        ELSE [error |-> "ValueError", val |-> PyNone]
      [] x.t = "bool" -> [error |-> "none", val |-> PyInt(<<"1">>)]
      [] OTHER -> [error |-> "none", val |-> PyInt(<<"0">>)]

\* int(x) as main applies it to cache["bug_id"]
IntConv(x) ==
    CASE x.t = "int" -> [error |-> "none", val |-> x]
      [] x.t = "str" -> IF IsInt(Strip(x.s)) THEN [error |-> "none", val |-> PyInt(Strip(x.s))]
                        ELSE [error |-> "ValueError", val |-> PyNone]
      [] x.t = "bool" -> [error |-> "none", val |-> PyInt(<<"1">>)]
      [] OTHER -> [error |-> "TypeError", val |-> PyNone]

\* a local name of main that no assignment has bound yet
Unbound == [t |-> "unbound", s |-> <<>>]

\* what an invocation does, in order: the functions it calls, the prompts it
\* shows the operator and the changes it makes outside its own memory
Call(name) == <<"call", name, <<>>>>
Prompt(name) == <<"prompt", name, <<>>>>
Effect(name, arg) == <<"effect", name, arg>>

(***************************************************************************)
(* Bounds and input sets                                                   *)
(***************************************************************************)
\* "24.3" from <<24, 3>>
Fmt(parts) == Join([i \in 1..Len(parts) |-> StrOf(parts[i])], ".")

Versions == {Fmt(<<24, 3>>), Fmt(<<24, 3, 1>>)}
CacheKeys == {"bug_id", "premerge-complete"}
CacheValues == {PyStr(<<>>), PyInt(<<"1">>), PyTrue}

\* the driver: the release it is run for, the answers the operator gives, the
\* tracker's issue numbers
DriverVersions == {Fmt(<<24, 3>>)}
YesNo == {<<>>, <<" ">>, <<"y">>, <<"Y">>, <<"n">>}
\* what the operator types at the "(y/N)" merge confirmation
MergedResponses == YesNo \cup {<<" ", "y">>, <<"y", "e", "s">>}
MaxBugs == 2
MaxWrongSeries == 1
MaxSignFails == 1
\* what the operator types at the "Try again" prompts of one signing; an answer
\* after one that is not affirmative is never read
SignAnswers ==
    {a \in UNION {[1..n -> YesNo] : n \in 0..MaxSignFails} :
        \A i \in 1..(Len(a) - 1) : affirmative(a[i])}
LikelyOldVersion == Fmt(<<24, 2>>)
\* what the operator types at the old-version prompt: nothing, or the tag itself
OldVersionResponses == {<<>>, <<" ">> \o LikelyOldVersion}
DriverChangelog == <<"x">>
\* the answers to "Enter bug ID": blank ones, then one that is not blank
BugIdEntries == {<<<<" ", "7">>>>, <<<<>>, <<"7", " ">>>>}

\* version heuristics: the year and minor components tried, the calendar years
MinYY == 23
MaxYY == 26
MaxMinor == 5
MaxPatch == 1
VersionParts ==
    {<<y, n>> : y \in MinYY..MaxYY, n \in 1..MaxMinor}
      \cup {<<y, n, p>> : y \in MinYY..MaxYY, n \in 1..MaxMinor, p \in 1..MaxPatch}
Years == {2000 + y : y \in MinYY..MaxYY}
\* what the operator types at a "(default): " prompt
VersionResponses == {<<>>, <<" ">>, <<" ">> \o Fmt(<<30, 2>>) \o <<"\n">>}

\* release-bug template: the changelog bodies tried (sh() has rstripped them)
MaxChangelogLen == 3
ChangelogTokens == {"x", " ", "\n", "\f", HdrChangelog, HdrNotes}
ChangelogBodies ==
    {b \in UNION {[1..n -> ChangelogTokens] : n \in 0..MaxChangelogLen} : RStrip(b) = b}
Reports ==
    [NEW_RELEASE : Versions, RELEASE_TIME_SPAN : {<<"4", " ", "months">>},
     NUM_CONTRIBUTORS : {<<"7">>}, NUM_DOMAINS : {<<"5">>}, NUM_BUGS : {<<"3">>},
     CHANGELOG : ChangelogBodies]

VARIABLES
    file,       \* the persisted store at CACHE_PATH
    cache,      \* self.cache of the live CachedDict
    version,    \* self.version of the live CachedDict
    live,       \* a CachedDict has been constructed
    lastOp,     \* the last cache operation: "none", "init", "set", "get", "purge"
    got,        \* what the last __getitem__ returned
    expected,   \* per version, the fields set and not purged since
    hadFields,  \* the last purge removed at least one field
    wasMissing, \* the last __init__ found no file
    verIn,      \* version heuristics: [parts, year, response], the inputs
    verOut,     \* version heuristics: [fn, result, point], the function applied
    report,     \* the changelog report create_release_bug computed
    description,\* the rendered bug description
    parsed,     \* what upload_to_launchpad split out of it
    tplPc,      \* "report", "rendered", "parsed"
    pc,         \* where the invocation of main() is ("idle" before, "done" after)
    stage,      \* args.stage
    old_version,\* main's local old_version
    bug_id,     \* main's local bug_id
    argBugId,   \* the bug_id argument of the function main called
    exitcode,   \* "running", then the process's exit status "0" or "1"
    error,      \* the uncaught exception that ended the process, or "none"
    log,        \* the calls, prompts and effects of this invocation, in order
    branch,     \* the checked-out branch, as far as the invocation has seen it
    ret,        \* where checkout_main_and_pull returns to
    nextBugId,  \* the tracker: the number its next issue gets
    startPremerge, \* premerge-complete was true when the invocation started
    startEmpty, \* the store held no field of the version when the invocation started
    heard,      \* what the last step read: the operator's answer, the checks' outcomes
    procs,      \* concurrent processes: per process, its own CachedDict [live, version, cache]
    history     \* the operations of the concurrent processes, in the order they ran

cacheVars == <<file, cache, version, live, lastOp, got, expected, hadFields, wasMissing>>

verVars == <<verIn, verOut>>

tplVars == <<report, description, parsed, tplPc>>

cacheGhost == <<lastOp, got, expected, hadFields, wasMissing>>

raceVars == <<procs, history>>

drvVars == <<pc, stage, old_version, bug_id, argBugId, exitcode, error, log, branch, ret,
             nextBugId, startPremerge, startEmpty, heard>>

\* a step that asked the operator nothing a later statement reads
NoAnswer == [at |-> "none", response |-> <<>>, checks |-> <<>>]

\* the step at `at` read `response` at its prompt and `checks` from its commands
Answered(at, response, checks) == [at |-> at, response |-> response, checks |-> checks]

vars == <<cacheVars, verVars, tplVars, drvVars, raceVars>>

IdleDriver ==
    /\ pc = "idle"
    /\ stage = "none"
    /\ old_version = Unbound
    /\ bug_id = Unbound
    /\ argBugId = Unbound
    /\ exitcode = "running"
    /\ error = "none"
    /\ log = <<>>
    /\ branch = "unknown"
    /\ ret = "none"
    /\ nextBugId = 1
    /\ startPremerge = FALSE
    /\ startEmpty = FALSE
    /\ heard = NoAnswer

NoReport ==
    [NEW_RELEASE |-> <<>>, RELEASE_TIME_SPAN |-> <<>>, NUM_CONTRIBUTORS |-> <<>>,
     NUM_DOMAINS |-> <<>>, NUM_BUGS |-> <<>>, CHANGELOG |-> <<>>]

NoParse == [error |-> "unparsed", release_notes |-> <<>>, changelog |-> <<>>]

IdleVersion ==
    /\ verIn = [parts |-> <<>>, year |-> 0, response |-> <<>>]
    /\ verOut = [fn |-> "none", result |-> <<>>, point |-> FALSE]

IdleTemplate ==
    /\ report = NoReport
    /\ description = <<>>
    /\ parsed = NoParse
    /\ tplPc = "idle"

\* a process that has not constructed its CachedDict
NoProc == [live |-> FALSE, version |-> <<>>, cache |-> EmptyDict]

IdleCache ==
    /\ procs = [p \in Procs |-> NoProc]
    /\ history = <<>>
    /\ file = NoFile
    /\ cache = EmptyDict
    /\ version = <<>>
    /\ live = FALSE
    /\ lastOp = "none"
    /\ got = PyNone
    /\ expected = [v \in Versions |-> EmptyDict]
    /\ hadFields = FALSE
    /\ wasMissing = FALSE

(***************************************************************************)
(* The cache used on its own: a process constructs a CachedDict, sets,     *)
(* reads and purges; constructing again is a restart of the process.       *)
(***************************************************************************)
NewCachedDict(v) ==
    /\ cache' = CachedDictInit(file, v)
    /\ version' = v
    /\ live' = TRUE
    /\ lastOp' = "init"
    /\ wasMissing' = ~file.exists
    /\ UNCHANGED <<file, got, expected, hadFields>>
    /\ UNCHANGED <<verVars, tplVars, raceVars, drvVars>>

CacheSet(k, x) ==
    /\ live
    /\ cache' = SetItem(cache, version, k, x)
    /\ file' = SaveCache(cache', file)
    /\ expected' = [expected EXCEPT ![version] = (k :> x) @@ @]
    /\ lastOp' = "set"
    /\ UNCHANGED <<version, live, got, hadFields, wasMissing>>
    /\ UNCHANGED <<verVars, tplVars, raceVars, drvVars>>

CacheGet(k) ==
    /\ live
    /\ got' = GetItem(cache, version, k)
    /\ lastOp' = "get"
    /\ UNCHANGED <<file, cache, version, live, expected, hadFields, wasMissing>>
    /\ UNCHANGED <<verVars, tplVars, raceVars, drvVars>>

CachePurge ==
    /\ live
    /\ cache' = PurgeItem(cache, version)
    /\ file' = SaveCache(cache', file)
    /\ expected' = [expected EXCEPT ![version] = EmptyDict]
    /\ hadFields' = (DOMAIN cache[version] # {})
    /\ lastOp' = "purge"
    /\ UNCHANGED <<version, live, got, wasMissing>>
    /\ UNCHANGED <<verVars, tplVars, raceVars, drvVars>>

NextCache ==
    \/ \E v \in Versions : NewCachedDict(v)
    \/ \E k \in CacheKeys, x \in CacheValues : CacheSet(k, x)
    \/ \E k \in CacheKeys : CacheGet(k)
    \/ CachePurge

InitCache == IdleCache /\ IdleVersion /\ IdleTemplate /\ IdleDriver

SpecCache == InitCache /\ [][NextCache]_vars

(***************************************************************************)
(* C5: after set(V, f, x), get(V, f) returns x in the same process and in  *)
(* a CachedDict constructed afterwards from the persisted file, until a    *)
(* later set(V, f, .) or purge(V); every set and purge has reached the     *)
(* file when it returns (loading the file gives the in-memory dict).       *)
(***************************************************************************)
C5_SetGetRoundTrip ==
    /\ \A v \in Versions : \A k \in DOMAIN expected[v] :
          /\ (live /\ version = v) => GetItem(cache, v, k) = expected[v][k]
          /\ GetItem(CachedDictInit(file, v), v, k) = expected[v][k]
    /\ lastOp \in {"set", "purge"} => (file.exists /\ JsonLoad(file.text) = cache)

C5_Witness ==
    /\ lastOp = "init"
    /\ \E v \in Versions : v # version /\ DOMAIN expected[v] = CacheKeys
    /\ DOMAIN expected[version] # {}

(***************************************************************************)
(* C6: after purge(V) every get(V, field) returns None, in the purging     *)
(* process and after a reload of the file; an absent field is returned as  *)
(* None; a missing cache file is loaded as an empty store.                 *)
(***************************************************************************)
C6_PurgeThenAbsent ==
    /\ lastOp = "purge" =>
          \A k \in CacheKeys :
             /\ GetItem(cache, version, k) = PyNone
             /\ GetItem(CachedDictInit(file, version), version, k) = PyNone
    /\ (lastOp = "get" /\ \A k \in CacheKeys : k \notin DOMAIN cache[version])
          => got = PyNone
    /\ (lastOp = "init" /\ wasMissing) => cache = (version :> EmptyDict)

C6_Witness == lastOp = "purge" /\ hadFields /\ file.exists

(***************************************************************************)
(* The version heuristics on their own: the inputs are drawn, and one of   *)
(* the functions is applied to them.                                       *)
(***************************************************************************)
InitVersion ==
    /\ IdleCache
    /\ IdleTemplate
    /\ IdleDriver
    /\ verIn \in [parts : VersionParts, year : Years, response : VersionResponses]
    /\ verOut = [fn |-> "none", result |-> <<>>, point |-> FALSE]

ApplyGetReleaseVersion ==
    /\ verOut.fn = "none"
    /\ verOut' = [fn |-> "get_release_version",
                  result |-> get_release_version(Fmt(verIn.parts), verIn.year, verIn.response),
                  point |-> FALSE]
    /\ UNCHANGED <<verIn, cacheVars, tplVars, raceVars, drvVars>>

ApplyGetNextVersion ==
    /\ verOut.fn = "none"
    /\ verOut' = [fn |-> "get_next_version",
                  result |-> get_next_version(Fmt(verIn.parts), verIn.year, verIn.response),
                  point |-> FALSE]
    /\ UNCHANGED <<verIn, cacheVars, tplVars, raceVars, drvVars>>

ApplyIsPointRelease ==
    /\ verOut.fn = "none"
    /\ verOut' = [fn |-> "is_point_release", result |-> <<>>,
                  point |-> is_point_release(Fmt(verIn.parts))]
    /\ UNCHANGED <<verIn, cacheVars, tplVars, raceVars, drvVars>>

NextVersion == ApplyGetReleaseVersion \/ ApplyGetNextVersion \/ ApplyIsPointRelease

SpecVersion == InitVersion /\ [][NextVersion]_vars

\* the operator left the prompt blank
Blank(response) == Strip(response) = <<>>

(***************************************************************************)
(* C9: for a current release YY.N and a blank answer, get_next_version     *)
(* returns (YY+1).1 when N > 3, YY being the release's own year component, *)
(* and YY.(N+1) when N <= 3; a non-blank answer is returned instead.        *)
(***************************************************************************)
C9_NextVersionDefault ==
    (verOut.fn = "get_next_version" /\ Len(verIn.parts) = 2) =>
        verOut.result =
            IF ~Blank(verIn.response) THEN Strip(verIn.response)
            ELSE IF verIn.parts[2] > 3 THEN Fmt(<<verIn.parts[1] + 1, 1>>)
            ELSE Fmt(<<verIn.parts[1], verIn.parts[2] + 1>>)

(***************************************************************************)
(* C10: for an old version with year component OY, a current two-digit     *)
(* year CY and a blank answer, get_release_version returns the old version *)
(* with its last component incremented when OY >= CY and CY.1 when         *)
(* OY < CY; a non-blank answer is returned instead.                        *)
(***************************************************************************)
C10_ReleaseVersionDefault ==
    verOut.fn = "get_release_version" =>
        LET OY == verIn.parts[1]
            CY == verIn.year % 100
            n == Len(verIn.parts)
        IN  verOut.result =
                IF ~Blank(verIn.response) THEN Strip(verIn.response)
                ELSE IF OY >= CY THEN Fmt([verIn.parts EXCEPT ![n] = @ + 1])
                ELSE Fmt(<<CY, 1>>)

C10_Witness ==
    /\ verOut.fn = "get_release_version"
    /\ verIn.parts = <<24, 2>>
    /\ verIn.year = 2024
    /\ Blank(verIn.response)
    /\ verOut.result = <<"2", "4", ".", "3">>

(***************************************************************************)
(* The bug description on its own: a report is drawn, rendered into        *)
(* BUG_TEMPLATE and split again as upload_to_launchpad splits it.          *)
(***************************************************************************)
InitTemplate ==
    /\ IdleCache
    /\ IdleVersion
    /\ IdleDriver
    /\ report \in Reports
    /\ description = <<>>
    /\ parsed = NoParse
    /\ tplPc = "report"

RenderDescription ==
    /\ tplPc = "report"
    /\ description' = BugTemplateFormat(report)
    /\ tplPc' = "rendered"
    /\ UNCHANGED <<report, parsed, cacheVars, verVars, drvVars, raceVars>>

UploadSplit ==
    /\ tplPc = "rendered"
    /\ parsed' = SplitDescription(description)
    /\ tplPc' = "parsed"
    /\ UNCHANGED <<report, description, cacheVars, verVars, drvVars, raceVars>>

NextTemplate == RenderDescription \/ UploadSplit

SpecTemplate == InitTemplate /\ [][NextTemplate]_vars

(***************************************************************************)
(* C8: for every report, the rendered description splits without error     *)
(* into the release notes (the text between the headers, stripped) and the *)
(* changelog body that was rendered.                                       *)
(***************************************************************************)
C8_DescriptionRoundTrip ==
    tplPc = "parsed" =>
        /\ parsed.error = "none"
        /\ parsed.release_notes = Strip(TemplateNotes(report))
        /\ parsed.changelog = report.CHANGELOG

(***************************************************************************)
(* The stage driver: one invocation of main() after another.  An action is *)
(* the code from one operator prompt (or external check) to the next.      *)
(***************************************************************************)
\* sys.exit(code)
Exit(code) == pc' = "done" /\ exitcode' = code /\ error' = "none"

\* an exception nothing catches: the interpreter ends the process with status 1
Raise(e) == pc' = "done" /\ exitcode' = "1" /\ error' = e

\* cache[k] = x for each <<k, x>> of writes, in order; each one saves the file
RECURSIVE SetItems(_, _, _)
SetItems(c, v, writes) ==
    IF writes = <<>> THEN c
    ELSE SetItems(SetItem(c, v, writes[1][1], writes[1][2]), v, Tail(writes))

CacheWrite(writes) ==
    /\ cache' = SetItems(cache, version, writes)
    /\ file' = SaveCache(cache', file)

CacheEffects(writes) == [i \in 1..Len(writes) |-> Effect("cache.set", <<writes[i][1]>>)]

\* main, lines 534-536: parse_args and CachedDict(release_version)
Invoke(st, v) ==
    /\ pc \in {"idle", "done"}
    /\ pc' = "main_537"
    /\ stage' = st
    /\ version' = v
    /\ cache' = CachedDictInit(file, v)
    /\ live' = TRUE
    /\ startPremerge' = (GetItem(cache', v, "premerge-complete") = PyTrue)
    /\ old_version' = Unbound
    /\ bug_id' = Unbound
    /\ argBugId' = Unbound
    /\ exitcode' = "running"
    /\ error' = "none"
    /\ log' = <<>>
    /\ branch' = "unknown"
    /\ ret' = "none"
    /\ startEmpty' = (DOMAIN cache'[v] = {})
    /\ UNCHANGED <<file, nextBugId, cacheGhost, verVars, tplVars, raceVars>>

\* main, lines 537-540
MainPurgeCache ==
    /\ pc = "main_537"
    /\ stage = "purge-cache"
    /\ cache' = PurgeItem(cache, version)
    /\ file' = SaveCache(cache', file)
    /\ log' = log \o <<Effect("cache.purge", version)>>
    /\ Exit("0")
    /\ UNCHANGED <<version, live, stage, old_version, bug_id, argBugId, branch, ret,
                   nextBugId, startPremerge, cacheGhost, verVars, tplVars, raceVars, startEmpty>>

\* main, lines 541-544
MainPremergeGate ==
    /\ pc = "main_537"
    /\ stage # "purge-cache"
    /\ pc' = IF PremergePending(stage, cache, version) THEN "main_545" ELSE "main_564"
    /\ UNCHANGED <<cacheVars, stage, old_version, bug_id, argBugId, exitcode, error, log,
                   branch, ret, nextBugId, startPremerge, verVars, tplVars, raceVars, startEmpty>>

\* main, line 545, left operand of `or`
MainOldVersionCached ==
    /\ pc = "main_545"
    /\ Truthy(GetItem(cache, version, "old_version"))
    /\ old_version' = GetItem(cache, version, "old_version")
    /\ pc' = "main_546"
    /\ UNCHANGED <<cacheVars, stage, bug_id, argBugId, exitcode, error, log, branch, ret,
                   nextBugId, startPremerge, verVars, tplVars, raceVars, startEmpty>>

\* get_old_version; ok: the git describe command exits 0
GetOldVersion(ok, response) ==
    /\ pc = "main_545"
    /\ ~Truthy(GetItem(cache, version, "old_version"))
    /\ IF ok
       THEN /\ old_version' = PyStr(Answer(response, LikelyOldVersion))
            /\ CacheWrite(<< <<"old_version", old_version'>> >>)
            /\ log' = log \o <<Call("get_old_version"), Prompt("Old version"),
                               Effect("cache.set", <<"old_version">>)>>
            /\ pc' = "main_546"
            /\ UNCHANGED <<exitcode, error>>
       ELSE /\ log' = log \o <<Call("get_old_version")>>
            /\ Raise("CalledProcessError")
            /\ UNCHANGED <<file, cache, old_version>>
    /\ UNCHANGED <<version, live, stage, bug_id, argBugId, branch, ret, nextBugId,
                   startPremerge, cacheGhost, verVars, tplVars, raceVars, startEmpty>>

\* the stages that run the code at a stage test of main
StagesAt(p) ==
    CASE p = "main_546" -> {"all", "create-release-bug"}
      [] p = "main_550" -> {"all", "prepare-git-branch"}
      [] p = "main_576" -> {"all", "tag-release"}
      [] p = "main_579" -> {"all", "build-and-upload"}
      [] p = "main_582" -> {"all", "close-all-bugs"}
      [] p = "main_585" -> {"all", "upload-copr"}
      [] p = "main_588" -> {"all", "email"}

\* a plausible slip: the close-all-bugs block is placed before build-and-upload
AfterStageSwapped(p) ==
    CASE p = "main_546" -> "main_550"
      [] p = "main_550" -> "main_554"
      [] p = "main_576" -> "main_582"
      [] p = "main_582" -> "main_579"
      [] p = "main_579" -> "main_585"
      [] p = "main_585" -> "main_588"
      [] p = "main_588" -> "main_601"

\* the stage test after the one at p
AfterStage(p) ==
    CASE p = "main_546" -> "main_550"
      [] p = "main_550" -> "main_554"
      [] p = "main_576" -> "main_579"
      [] p = "main_579" -> "main_582"
      [] p = "main_582" -> "main_585"
      [] p = "main_585" -> "main_588"
      [] p = "main_588" -> "main_601"

StageTests == {"main_546", "main_550", "main_576", "main_579", "main_582", "main_585", "main_588"}

\* main, lines 546-549, and create_release_bug; ok: the git log commands exit 0
CreateReleaseBug(ok, response) ==
    /\ pc = "main_546"
    /\ stage \in {"all", "create-release-bug"}
    /\ (ok /\ affirmative(response)) => nextBugId <= MaxBugs
    /\ IF ~ok
       THEN /\ log' = log \o <<Call("create_release_bug")>>
            /\ Raise("CalledProcessError")
            /\ UNCHANGED <<file, cache, bug_id, nextBugId>>
       ELSE LET created == affirmative(response)
                id == IF created THEN PyInt(StrOf(nextBugId)) ELSE PyStr(<<>>)
                writes == << <<"bug_id", id>>, <<"changelog", PyStr(DriverChangelog)>> >>
            IN  /\ bug_id' = id
                /\ nextBugId' = IF created THEN nextBugId + 1 ELSE nextBugId
                /\ CacheWrite(writes)
                /\ log' = log \o <<Call("create_release_bug"), Prompt("Create a new bug")>>
                              \o (IF created THEN <<Effect("create_bug", id.s)>>
                                  ELSE <<Prompt("Press Enter")>>)
                              \o CacheEffects(writes)
                /\ pc' = AfterStage("main_546")
                /\ UNCHANGED <<exitcode, error>>
    /\ UNCHANGED <<version, live, stage, old_version, argBugId, branch, ret, startPremerge,
                   cacheGhost, verVars, tplVars, raceVars, startEmpty>>

\* an `if args.stage in [...]` of main that is false
MainSkipStage ==
    /\ pc \in StageTests
    /\ stage \notin StagesAt(pc)
    /\ pc' = AfterStage(pc)
    /\ UNCHANGED <<cacheVars, stage, old_version, bug_id, argBugId, exitcode, error, log,
                   branch, ret, nextBugId, startPremerge, verVars, tplVars, raceVars, startEmpty>>

\* main, lines 550-553: the arguments of prepare_git_branch
MainPrepareArgs ==
    /\ pc = "main_550"
    /\ stage \in StagesAt("main_550")
    /\ LET conv == IntConv(GetItem(cache, version, "bug_id"))
       IN  IF conv.error # "none"
           THEN Raise(conv.error) /\ UNCHANGED <<argBugId, log>>
           ELSE /\ argBugId' = conv.val
                /\ log' = log \o <<Call("prepare_git_branch")>>
                /\ pc' = "pgb_236"
                /\ UNCHANGED <<exitcode, error>>
    /\ UNCHANGED <<cacheVars, stage, old_version, bug_id, branch, ret, nextBugId,
                   startPremerge, verVars, tplVars, raceVars, startEmpty>>

\* check_changelog; exists: os.path.exists("ChangeLog")
CheckChangelog(exists) ==
    /\ pc = "pgb_236"
    /\ IF exists
       THEN pc' = "cmp_168" /\ ret' = "pgb_239" /\ UNCHANGED <<exitcode, error>>
       ELSE Exit("1") /\ UNCHANGED ret
    /\ UNCHANGED <<cacheVars, stage, old_version, bug_id, argBugId, log, branch, nextBugId,
                   startPremerge, verVars, tplVars, raceVars, startEmpty>>

\* checkout_main_and_pull, lines 168-177; onMain: git branch --show-current is main
CheckoutMain(onMain, response) ==
    /\ pc = "cmp_168"
    /\ IF onMain
       THEN /\ branch' = "main"
            /\ pc' = "cmp_179"
            /\ UNCHANGED <<log, exitcode, error>>
       ELSE IF affirmative(response)
       THEN /\ log' = log \o <<Prompt("Change current branch to main"),
                               Effect("git fetch", <<>>), Effect("git checkout main", <<>>)>>
            /\ branch' = "main"
            /\ pc' = "cmp_179"
            /\ UNCHANGED <<exitcode, error>>
       ELSE /\ log' = log \o <<Prompt("Change current branch to main")>>
            /\ branch' = "other"
            /\ Exit("1")
    /\ UNCHANGED <<cacheVars, stage, old_version, bug_id, argBugId, ret, nextBugId,
                   startPremerge, verVars, tplVars, raceVars, startEmpty>>

\* checkout_main_and_pull, lines 179-184; upToDate: HEAD is the upstream commit
PullUpstream(upToDate, response) ==
    /\ pc = "cmp_179"
    /\ IF upToDate
       THEN pc' = ret /\ UNCHANGED <<log, exitcode, error>>
       ELSE IF affirmative(response)
       THEN /\ log' = log \o <<Prompt("Pull latest upstream"), Effect("git pull", <<>>)>>
            /\ pc' = ret
            /\ UNCHANGED <<exitcode, error>>
       ELSE /\ log' = log \o <<Prompt("Pull latest upstream")>>
            /\ Exit("1")
    /\ UNCHANGED <<cacheVars, stage, old_version, bug_id, argBugId, branch, ret, nextBugId,
                   startPremerge, verVars, tplVars, raceVars, startEmpty>>

\* prepare_git_branch, lines 239-253; branchOk: git checkout -b exits 0 (its
\* failure is caught), sedOk: the sed command exits 0
PrepareGitBranch(response, branchOk, sedOk) ==
    /\ pc = "pgb_239"
    /\ IF ~affirmative(response)
       THEN /\ log' = log \o <<Prompt("Create new release branch")>>
            /\ pc' = AfterStage("main_550")
            /\ UNCHANGED <<branch, exitcode, error>>
       ELSE /\ branch' = IF branchOk THEN "release" ELSE branch
            /\ log' = log \o <<Prompt("Create new release branch")>>
                          \o (IF branchOk THEN <<Effect("git checkout -b", version)>> ELSE <<>>)
                          \o <<Effect("write ChangeLog", version)>>
                          \o (IF sedOk THEN <<Effect("sed version.py", version)>> ELSE <<>>)
            /\ IF sedOk THEN pc' = "pgb_254" /\ UNCHANGED <<exitcode, error>>
               ELSE Raise("CalledProcessError")
    /\ UNCHANGED <<cacheVars, stage, old_version, bug_id, argBugId, ret, nextBugId,
                   startPremerge, verVars, tplVars, raceVars, startEmpty>>

\* prepare_git_branch, lines 254-264: the bug-id loop and the commit; entries:
\* what the operator types at each turn of the loop, ok: git commit exits 0
CommitRelease(entries, ok) ==
    /\ pc = "pgb_254"
    /\ entries \in (IF Truthy(argBugId) THEN {<<>>} ELSE BugIdEntries)
    /\ LET id == IF Truthy(argBugId) THEN argBugId
                 ELSE PyStr(Strip(entries[Len(entries)]))
       IN  /\ argBugId' = id
           /\ log' = log \o [i \in 1..Len(entries) |-> Prompt("Enter bug ID")]
                         \o (IF ok THEN <<Effect("git commit", <<"LP: #">> \o id.s)>> ELSE <<>>)
    /\ IF ok THEN pc' = AfterStage("main_550") /\ UNCHANGED <<exitcode, error>>
       ELSE Raise("CalledProcessError")
    /\ UNCHANGED <<cacheVars, stage, old_version, bug_id, branch, ret, nextBugId,
                   startPremerge, verVars, tplVars, raceVars, startEmpty>>

\* a plausible slip: the flag is recorded and the sys.exit(0) forgotten
MainPremergeDoneNoExit ==
    /\ pc = "main_554"
    /\ IF bug_id = Unbound
       THEN Raise("UnboundLocalError") /\ UNCHANGED <<file, cache, log>>
       ELSE /\ CacheWrite(<< <<"premerge-complete", PyTrue>> >>)
            /\ log' = log \o <<Effect("cache.set", <<"premerge-complete">>)>>
            /\ pc' = "main_564"
            /\ UNCHANGED <<exitcode, error>>
    /\ UNCHANGED <<version, live, stage, old_version, bug_id, argBugId, branch, ret,
                   nextBugId, startPremerge, cacheGhost, verVars, tplVars, raceVars, startEmpty>>

\* main, lines 554-563: the print that reads bug_id, the flag, the exit
MainPremergeDone ==
    /\ pc = "main_554"
    /\ IF bug_id = Unbound
       THEN Raise("UnboundLocalError") /\ UNCHANGED <<file, cache, log>>
       ELSE /\ CacheWrite(<< <<"premerge-complete", PyTrue>> >>)
            /\ log' = log \o <<Effect("cache.set", <<"premerge-complete">>)>>
            /\ Exit("0")
    /\ UNCHANGED <<version, live, stage, old_version, bug_id, argBugId, branch, ret,
                   nextBugId, startPremerge, cacheGhost, verVars, tplVars, raceVars, startEmpty>>

\* main, lines 564-572: the merge confirmation of the composite stage
MainMergedPrompt(response) ==
    /\ pc = "main_564"
    /\ stage = "all"
    /\ log' = log \o <<Prompt("Has git branch been merged")>>
    /\ IF merged(response)
       THEN pc' = "cmp_168" /\ ret' = "main_574" /\ UNCHANGED <<exitcode, error>>
       ELSE Exit("1") /\ UNCHANGED ret
    /\ UNCHANGED <<cacheVars, stage, old_version, bug_id, argBugId, branch, nextBugId,
                   startPremerge, verVars, tplVars, raceVars, startEmpty>>

\* main, line 564 false: a single stage goes on to line 573
MainPostMerge ==
    /\ pc = "main_564"
    /\ stage # "all"
    /\ pc' = "cmp_168"
    /\ ret' = "main_574"
    /\ UNCHANGED <<cacheVars, stage, old_version, bug_id, argBugId, exitcode, error, log,
                   branch, nextBugId, startPremerge, verVars, tplVars, raceVars, startEmpty>>

\* main, line 574
LaunchpadLogin ==
    /\ pc = "main_574"
    /\ log' = log \o <<Call("launchpad_login")>>
    /\ pc' = "main_576"
    /\ UNCHANGED <<cacheVars, stage, old_version, bug_id, argBugId, exitcode, error, branch,
                   ret, nextBugId, startPremerge, verVars, tplVars, raceVars, startEmpty>>

\* a plausible slip: only the commit is checked, not the branch
TagChecksPassHeadOnly(headIsRelease, onMain) == headIsRelease

\* tag_release, lines 457-461: HEAD is the release commit and the branch is main
TagChecksPass(headIsRelease, onMain) == headIsRelease /\ onMain

\* tag_release; remoteOk: the grep for the push remote exits 0, headIsRelease:
\* HEAD's one-line description holds "Release <version>", onMain: git rev-parse
\* names main (the working tree is the operator's, who may have switched branch
\* since checkout_main_and_pull), tagOk, pushOk: git tag and git push exit 0
TagRelease(response, remoteOk, headIsRelease, onMain, tagOk, pushOk) ==
    /\ pc = "main_576"
    /\ stage \in StagesAt("main_576")
    /\ LET asked == log \o <<Call("tag_release"), Prompt("Tag release and push")>>
       IN  IF ~affirmative(response)
           THEN log' = asked /\ pc' = AfterStage("main_576") /\ UNCHANGED <<exitcode, error>>
           ELSE IF ~remoteOk
           THEN log' = asked /\ Raise("CalledProcessError")
           ELSE IF ~TagChecksPass(headIsRelease, onMain)
           THEN log' = asked /\ pc' = AfterStage("main_576") /\ UNCHANGED <<exitcode, error>>
           ELSE IF ~tagOk
           THEN log' = asked /\ Raise("CalledProcessError")
           ELSE IF ~pushOk
           THEN log' = asked \o <<Effect("git tag", version)>> /\ Raise("CalledProcessError")
           ELSE /\ log' = asked \o <<Effect("git tag", version), Effect("git push", version)>>
                /\ pc' = AfterStage("main_576")
                /\ UNCHANGED <<exitcode, error>>
    /\ UNCHANGED <<cacheVars, stage, old_version, bug_id, argBugId, branch, ret, nextBugId,
                   startPremerge, verVars, tplVars, raceVars, startEmpty>>

\* main, line 580: the arguments of build_and_upload
BuildAndUploadArgs ==
    /\ pc = "main_579"
    /\ stage \in StagesAt("main_579")
    /\ LET conv == IntConv(GetItem(cache, version, "bug_id"))
       IN  IF conv.error # "none"
           THEN Raise(conv.error) /\ UNCHANGED <<argBugId, log>>
           ELSE /\ argBugId' = conv.val
                /\ log' = log \o <<Call("build_and_upload")>>
                /\ pc' = "bau_431"
                /\ UNCHANGED <<exitcode, error>>
    /\ UNCHANGED <<cacheVars, stage, old_version, bug_id, branch, ret, nextBugId,
                   startPremerge, verVars, tplVars, raceVars, startEmpty>>

\* the answers to "Try again" the loop of build_tarball_and_sign reads: it stops
\* at the first one that is not affirmative
Declined(answers) == \E i \in 1..Len(answers) : ~affirmative(answers[i])

Turns(answers) ==
    IF Declined(answers)
    THEN CHOOSE i \in 1..Len(answers) :
            ~affirmative(answers[i]) /\ \A j \in 1..(i - 1) : affirmative(answers[j])
    ELSE Len(answers)

\* a plausible slip: a failed signing is run again without asking
SignRetriesNoPrompt(answers) == [i \in 1..Turns(answers) |-> Effect("gpg", <<"1">>)]

\* the (failed gpg run, "Try again" prompt) pairs of build_tarball_and_sign
SignRetries(answers) ==
    [i \in 1..(2 * Turns(answers)) |->
        IF i % 2 = 1 THEN Effect("gpg", <<"1">>) ELSE Prompt("Try again")]

\* build_and_upload, lines 431-435, with get_series and build_tarball_and_sign;
\* wrong: the invalid series names typed before a valid one, tarOk: make-tarball
\* exits 0, answers: what the operator types at "Try again" after each gpg run
\* that fails (gpg exits 0 once they are used up)
BuildTarball(response, wrong, tarOk, answers) ==
    /\ pc = "bau_431"
    /\ LET asked == log \o <<Prompt("Build tarball for upload")>>
           series == asked \o [i \in 1..(wrong + 1) |-> Prompt("Specify series")]
       IN  IF ~affirmative(response)
           THEN log' = asked /\ pc' = AfterStage("main_579") /\ UNCHANGED <<exitcode, error>>
           ELSE IF ~tarOk
           THEN log' = series /\ Raise("CalledProcessError")
           ELSE IF Declined(answers)
           THEN /\ log' = series \o <<Effect("make-tarball", <<>>)>> \o SignRetries(answers)
                /\ Exit("1")
           ELSE /\ log' = series \o <<Effect("make-tarball", <<>>)>> \o SignRetries(answers)
                              \o <<Effect("gpg", <<"0">>)>>
                /\ pc' = "bau_436"
                /\ UNCHANGED <<exitcode, error>>
    /\ UNCHANGED <<cacheVars, stage, old_version, bug_id, argBugId, branch, ret, nextBugId,
                   startPremerge, verVars, tplVars, raceVars, startEmpty>>

\* the report create_release_bug renders for the driver's changelog
DriverReport(v) ==
    [NEW_RELEASE |-> v, RELEASE_TIME_SPAN |-> <<"4", " ", "months">>,
     NUM_CONTRIBUTORS |-> <<"7">>, NUM_DOMAINS |-> <<"5">>, NUM_BUGS |-> <<"3">>,
     CHANGELOG |-> DriverChangelog]

\* what the tracker may hold as the description of the release bug
Descriptions(v) == {BugTemplateFormat(DriverReport(v)), <<"x">>}

\* build_and_upload, lines 436-438, and upload_to_launchpad; found: what the
\* project already has for the version, descr: the bug's stored description
UploadToLaunchpad(response, found, descr) ==
    /\ pc = "bau_436"
    /\ LET asked == log \o <<Prompt("Upload to launchpad")>>
           release == asked \o <<Call("upload_to_launchpad")>>
                        \o (IF found = "none" THEN <<Effect("lp.newMilestone", version)>> ELSE <<>>)
                        \o (IF found # "release"
                            THEN <<Effect("lp.createProductRelease", version)>> ELSE <<>>)
                        \o <<Effect("lp.add_file", version)>>
           split == SplitDescription(descr)
       IN  IF ~affirmative(response)
           THEN log' = asked /\ pc' = "bau_439" /\ UNCHANGED <<exitcode, error>>
           ELSE IF split.error # "none"
           THEN log' = release /\ Raise(split.error)
           ELSE /\ log' = release \o <<Effect("lp.release_notes", split.release_notes),
                                       Effect("lp.changelog", split.changelog),
                                       Effect("lp_save", version)>>
                /\ pc' = "bau_439"
                /\ UNCHANGED <<exitcode, error>>
    /\ UNCHANGED <<cacheVars, stage, old_version, bug_id, argBugId, branch, ret, nextBugId,
                   startPremerge, verVars, tplVars, raceVars, startEmpty>>

\* the calendar years the driver is run in
DriverYears == {2024, 2025}

\* build_and_upload, lines 439-441, and create_new_milestone; year: the
\* calendar year, exists: the series already has the next milestone
CreateMilestone(response, response2, response3, year, exists) ==
    /\ pc = "bau_439"
    /\ LET asked == log \o <<Prompt("Create new milestone on launchpad")>>
           asked2 == asked \o <<Call("create_new_milestone"), Prompt("Create next milestone now")>>
           next_version == get_next_version(version, year, response3)
       IN  log' = IF ~affirmative(response) THEN asked
                  ELSE IF ~affirmative(response2) THEN asked2
                  ELSE asked2 \o <<Prompt("Next version")>>
                         \o (IF exists THEN <<>> ELSE <<Effect("lp.newMilestone", next_version)>>)
    /\ pc' = "bau_442"
    /\ UNCHANGED <<cacheVars, stage, old_version, bug_id, argBugId, exitcode, error, branch,
                   ret, nextBugId, startPremerge, verVars, tplVars, raceVars, startEmpty>>

\* the requests upload_to_github sends, in order
GithubRequests == <<"release", "tarball", "signature">>

\* a plausible slip: every request is sent and the first bad status raised at the end
GithubPostsKeepGoing(accepted) ==
    [i \in 1..Len(GithubRequests) |->
        Effect("github.post", <<GithubRequests[i], IF i = accepted + 1 THEN "4xx" ELSE "2xx">>)]

\* upload_to_github, lines 371-404: the requests sent when the first `accepted`
\* get a 2xx status; raise_for_status() follows each post
GithubPosts(accepted) ==
    LET sent == IF accepted < Len(GithubRequests) THEN accepted + 1 ELSE Len(GithubRequests)
    IN  [i \in 1..sent |->
            Effect("github.post", <<GithubRequests[i], IF i <= accepted THEN "2xx" ELSE "4xx">>)]

\* a plausible slip: a handler that takes the tracker's release back
AfterGithubFailureRollback == <<Effect("lp.delete_release", <<>>)>>

\* upload_to_github has no except or finally: nothing runs after a failed request
AfterGithubFailure == <<>>

\* build_and_upload, lines 442-444, and upload_to_github; hasToken: GITHUB_TOKEN
\* is set, accepted: how many requests get a 2xx answer before one does not
UploadToGithub(response, hasToken, accepted) ==
    /\ pc = "bau_442"
    /\ LET asked == log \o <<Prompt("Upload to Github")>>
           failed == accepted < Len(GithubRequests)
       IN  IF ~affirmative(response)
           THEN log' = asked /\ pc' = AfterStage("main_579") /\ UNCHANGED <<exitcode, error>>
           ELSE /\ log' = asked \o <<Call("upload_to_github")>>
                              \o (IF hasToken THEN <<>> ELSE <<Prompt("Enter Github token")>>)
                              \o GithubPosts(accepted)
                              \o (IF failed THEN AfterGithubFailure ELSE <<>>)
                /\ IF failed THEN Raise("HTTPError")
                   ELSE pc' = AfterStage("main_579") /\ UNCHANGED <<exitcode, error>>
    /\ UNCHANGED <<cacheVars, stage, old_version, bug_id, argBugId, branch, ret, nextBugId,
                   startPremerge, verVars, tplVars, raceVars, startEmpty>>

\* main, line 583, and close_all_bugs; logOk: git log old..new exits 0 (it
\* cannot for an old_version that is None), closeOk: lp-bugs-released exits 0
CloseAllBugs(response, logOk, closeOk) ==
    /\ pc = "main_582"
    /\ stage \in StagesAt("main_582")
    /\ logOk => GetItem(cache, version, "old_version") # PyNone
    /\ LET asked == log \o <<Call("close_all_bugs"), Prompt("Close all bugs")>>
       IN  IF ~affirmative(response) \/ ~logOk
           THEN log' = asked /\ pc' = AfterStage("main_582") /\ UNCHANGED <<exitcode, error>>
           ELSE IF ~closeOk
           THEN log' = asked /\ Raise("CalledProcessError")
           ELSE /\ log' = asked \o <<Effect("lp-bugs-released", version)>>
                /\ pc' = AfterStage("main_582")
                /\ UNCHANGED <<exitcode, error>>
    /\ UNCHANGED <<cacheVars, stage, old_version, bug_id, argBugId, branch, ret, nextBugId,
                   startPremerge, verVars, tplVars, raceVars, startEmpty>>

RpmPath == PyStr(<<"./srpm/", "x", "/.rpm">>)

\* main, line 586, and upload_copr; buildOk: run-container exits 0, hasCopr: the
\* copr library imports, configOk: the copr client is created
UploadCopr(response, buildOk, hasCopr, configOk) ==
    /\ pc = "main_585"
    /\ stage \in StagesAt("main_585")
    /\ LET asked == log \o <<Call("upload_copr"), Prompt("Build and upload to COPR")>>
           cached == Truthy(GetItem(cache, version, "rpm_path"))
           built == IF cached THEN asked
                    ELSE asked \o <<Effect("run-container", <<>>), Effect("cache.set", <<"rpm_path">>)>>
       IN  IF ~affirmative(response)
           THEN /\ log' = asked
                /\ pc' = AfterStage("main_585")
                /\ UNCHANGED <<file, cache, exitcode, error>>
           ELSE IF ~cached /\ ~buildOk
           THEN log' = asked /\ Raise("CalledProcessError") /\ UNCHANGED <<file, cache>>
           ELSE /\ IF cached THEN UNCHANGED <<file, cache>>
                   ELSE CacheWrite(<< <<"rpm_path", RpmPath>> >>)
                /\ IF ~hasCopr THEN log' = built /\ Exit("1")
                   ELSE IF ~configOk THEN log' = built /\ Raise("Exception")
                   ELSE /\ log' = built \o <<Effect("copr.create_from_file", version)>>
                        /\ pc' = AfterStage("main_585")
                        /\ UNCHANGED <<exitcode, error>>
    /\ UNCHANGED <<version, live, stage, old_version, bug_id, argBugId, branch, ret,
                   nextBugId, startPremerge, cacheGhost, verVars, tplVars, raceVars, startEmpty>>

\* main, lines 588-600: the announcement email is printed
Email ==
    /\ pc = "main_588"
    /\ stage \in StagesAt("main_588")
    /\ LET conv == IntConv(GetItem(cache, version, "bug_id"))
       IN  IF conv.error # "none"
           THEN Raise(conv.error) /\ UNCHANGED log
           ELSE /\ log' = log \o <<Call("email")>>
                /\ pc' = AfterStage("main_588")
                /\ UNCHANGED <<exitcode, error>>
    /\ UNCHANGED <<cacheVars, stage, old_version, bug_id, argBugId, branch, ret, nextBugId,
                   startPremerge, verVars, tplVars, raceVars, startEmpty>>

\* main returns: the process ends with status 0
MainReturn ==
    /\ pc = "main_601"
    /\ Exit("0")
    /\ UNCHANGED <<cacheVars, stage, old_version, bug_id, argBugId, log, branch, ret,
                   nextBugId, startPremerge, verVars, tplVars, raceVars, startEmpty>>

\* the values tried for an input that is read only after an affirmative answer
IfYes(response, values) ==
    IF affirmative(response) THEN values ELSE {CHOOSE x \in values : TRUE}

Next ==
    \/ \E st \in Stages, v \in DriverVersions : Invoke(st, v) /\ heard' = NoAnswer
    \/ MainPurgeCache /\ heard' = NoAnswer
    \/ MainPremergeGate /\ heard' = NoAnswer
    \/ MainOldVersionCached /\ heard' = NoAnswer
    \/ \E ok \in BOOLEAN, r \in OldVersionResponses : GetOldVersion(ok, r) /\ heard' = NoAnswer
    \/ \E ok \in BOOLEAN, r \in YesNo :
          CreateReleaseBug(ok, r) /\ heard' = Answered("create_release_bug", r, <<ok>>)
    \/ MainSkipStage /\ heard' = NoAnswer
    \/ MainPrepareArgs /\ heard' = NoAnswer
    \/ \E exists \in BOOLEAN : CheckChangelog(exists) /\ heard' = NoAnswer
    \/ \E onMain \in BOOLEAN, r \in YesNo : CheckoutMain(onMain, r) /\ heard' = NoAnswer
    \/ \E upToDate \in BOOLEAN, r \in YesNo : PullUpstream(upToDate, r) /\ heard' = NoAnswer
    \/ \E r \in YesNo : \E branchOk \in IfYes(r, BOOLEAN), sedOk \in IfYes(r, BOOLEAN) :
          PrepareGitBranch(r, branchOk, sedOk) /\ heard' = NoAnswer
    \/ \E entries \in BugIdEntries \cup {<<>>}, ok \in BOOLEAN :
          CommitRelease(entries, ok) /\ heard' = NoAnswer
    \/ MainPremergeDone /\ heard' = NoAnswer
    \/ \E r \in MergedResponses : MainMergedPrompt(r) /\ heard' = Answered("merged", r, <<>>)
    \/ MainPostMerge /\ heard' = NoAnswer
    \/ LaunchpadLogin /\ heard' = NoAnswer
    \/ \E r \in YesNo : \E remoteOk \in IfYes(r, BOOLEAN), headIsRelease \in IfYes(r, BOOLEAN),
          onMain \in IfYes(r, BOOLEAN), tagOk \in IfYes(r, BOOLEAN), pushOk \in IfYes(r, BOOLEAN) :
          /\ TagRelease(r, remoteOk, headIsRelease, onMain, tagOk, pushOk)
          /\ heard' = Answered("tag_release", r, <<headIsRelease, onMain, tagOk>>)
    \/ BuildAndUploadArgs /\ heard' = NoAnswer
    \/ \E r \in YesNo : \E wrong \in IfYes(r, 0..MaxWrongSeries), tarOk \in IfYes(r, BOOLEAN) :
          \E answers \in (IF ~affirmative(r) \/ wrong > 0 \/ ~tarOk THEN {<<>>} ELSE SignAnswers) :
             /\ BuildTarball(r, wrong, tarOk, answers)
             /\ heard' = Answered("build_tarball", r, answers)
    \/ \E r \in YesNo : \E found \in IfYes(r, {"release", "milestone", "none"}),
          descr \in IfYes(r, Descriptions(version)) :
          UploadToLaunchpad(r, found, descr) /\ heard' = NoAnswer
    \/ \E r \in YesNo : \E r2 \in IfYes(r, YesNo) : \E r3 \in IfYes(r2, VersionResponses),
          year \in IfYes(r2, DriverYears), exists \in IfYes(r2, BOOLEAN) :
          CreateMilestone(r, r2, r3, year, exists) /\ heard' = NoAnswer
    \/ \E r \in YesNo : \E hasToken \in IfYes(r, BOOLEAN),
          accepted \in IfYes(r, 0..Len(GithubRequests)) :
          UploadToGithub(r, hasToken, accepted) /\ heard' = NoAnswer
    \/ \E r \in YesNo : \E logOk \in IfYes(r, BOOLEAN), closeOk \in IfYes(r, BOOLEAN) :
          CloseAllBugs(r, logOk, closeOk) /\ heard' = NoAnswer
    \/ \E r \in YesNo : \E buildOk \in IfYes(r, BOOLEAN), hasCopr \in IfYes(r, BOOLEAN),
          configOk \in IfYes(r, BOOLEAN) : UploadCopr(r, buildOk, hasCopr, configOk) /\ heard' = NoAnswer
    \/ Email /\ heard' = NoAnswer
    \/ MainReturn /\ heard' = NoAnswer

Init == IdleCache /\ IdleVersion /\ IdleTemplate /\ IdleDriver

Spec == Init /\ [][Next]_vars

(***************************************************************************)
(* What an invocation has done, read off its log and the persisted file    *)
(***************************************************************************)
Called(name) == \E i \in 1..Len(log) : log[i] = Call(name)

Did(name) == \E i \in 1..Len(log) : log[i][1] = "effect" /\ log[i][2] = name

Wrote(k) == \E i \in 1..Len(log) : log[i] = Effect("cache.set", <<k>>)

IsPrompt(e) == e[1] = "prompt"

Prompts == SelectSeq(log, IsPrompt)

\* what a CachedDict constructed now from the file would return
Persisted(k) == GetItem(CachedDictInit(file, version), version, k)

PremergeCalls == {"get_old_version", "create_release_bug", "prepare_git_branch"}

PremergeEffects ==
    {"create_bug", "git checkout -b", "write ChangeLog", "sed version.py", "git commit"}

PostMergeCalls ==
    {"launchpad_login", "tag_release", "build_and_upload", "upload_to_launchpad",
     "create_new_milestone", "upload_to_github", "close_all_bugs", "upload_copr", "email"}

PostMergeEffects ==
    {"git tag", "git push", "make-tarball", "gpg", "lp.newMilestone",
     "lp.createProductRelease", "lp.add_file", "lp.release_notes", "lp.changelog", "lp_save",
     "github.post", "lp-bugs-released", "run-container", "copr.create_from_file"}

PremergeFields == {"old_version", "bug_id", "changelog", "premerge-complete"}

RanPremerge ==
    \E i \in 1..Len(log) :
        \/ log[i][1] = "call" /\ log[i][2] \in PremergeCalls
        \/ log[i][1] = "effect" /\ log[i][2] \in PremergeEffects
        \/ log[i][1] = "effect" /\ log[i][2] = "cache.set" /\ log[i][3][1] \in PremergeFields

RanPostMerge ==
    \E i \in 1..Len(log) :
        \/ log[i][1] = "call" /\ log[i][2] \in PostMergeCalls
        \/ log[i][1] = "effect" /\ log[i][2] \in PostMergeEffects

(***************************************************************************)
(* C1: an `all` invocation that finds premerge-complete = true runs no     *)
(* release-bug creation and no branch preparation, and the first prompt it *)
(* shows the operator is "Has git branch been merged".                     *)
(***************************************************************************)
C1_SecondAllSkipsPremerge ==
    (pc # "idle" /\ stage = "all" /\ startPremerge) =>
        /\ ~RanPremerge
        /\ Prompts # <<>> => Prompts[1] = Prompt("Has git branch been merged")
        /\ pc \notin {"main_537", "main_564"} => Prompts # <<>>

C1_Witness ==
    /\ stage = "all"
    /\ startPremerge
    /\ pc = "done"
    /\ exitcode = "0"
    /\ Did("git push")

(***************************************************************************)
(* C2, as claimed: every `all` invocation that starts with the flag unset  *)
(* runs bug creation and branch preparation, records premerge-complete,    *)
(* exits 0, and performs no post-merge operation.                          *)
(***************************************************************************)
C2_AlwaysPausesWithExit0 ==
    (pc = "done" /\ stage = "all" /\ ~startPremerge) =>
        /\ exitcode = "0"
        /\ Called("create_release_bug")
        /\ Called("prepare_git_branch")
        /\ Persisted("premerge-complete") = PyTrue
        /\ ~RanPostMerge

(***************************************************************************)
(* C2, amended: an `all` invocation that starts with the flag unset never  *)
(* performs a post-merge operation nor asks for the merge confirmation; if *)
(* it exits 0 it has called create_release_bug and prepare_git_branch and  *)
(* recorded premerge-complete = true as its last act; if it ends with      *)
(* status 1 (a failed precondition or an uncaught exception) the flag is   *)
(* not recorded.                                                           *)
(***************************************************************************)
C2_HardPause ==
    (pc # "idle" /\ stage = "all" /\ ~startPremerge) =>
        /\ ~RanPostMerge
        /\ \A i \in 1..Len(log) : log[i] # Prompt("Has git branch been merged")
        /\ (pc = "done" /\ exitcode = "0") =>
              /\ Called("create_release_bug")
              /\ Called("prepare_git_branch")
              /\ Persisted("premerge-complete") = PyTrue
              /\ log[Len(log)] = Effect("cache.set", <<"premerge-complete">>)
        /\ (pc = "done" /\ exitcode # "0") => Persisted("premerge-complete") # PyTrue
        /\ pc # "done" => Persisted("premerge-complete") # PyTrue

C2_Witness ==
    /\ stage = "all"
    /\ ~startPremerge
    /\ pc = "done"
    /\ exitcode = "0"
    /\ Did("git commit")

(***************************************************************************)
(* C3: once an invocation of a pre-merge stage (all, create-release-bug,   *)
(* prepare-git-branch) has run its pre-merge steps, premerge-complete is   *)
(* recorded true in the persisted cache.                                   *)
(***************************************************************************)
C3_PremergeRecorded ==
    (/\ pc = "done"
     /\ stage \in PremergeStages
     /\ ~startPremerge
     /\ stage \in {"all", "create-release-bug"} => Wrote("changelog")
     /\ stage \in {"all", "prepare-git-branch"} => Did("git commit"))
        => Persisted("premerge-complete") = PyTrue

(***************************************************************************)
(* C4: branch preparation reached with no usable bug identifier in the     *)
(* cache (absent, or the empty string) does not fail on the identifier:    *)
(* the driver goes on to the re-prompt loop of prepare_git_branch.         *)
(***************************************************************************)
C4_BugIdReprompted ==
    (/\ pc = "done"
     /\ stage \in {"all", "prepare-git-branch"}
     /\ ~startPremerge
     /\ old_version # Unbound
     /\ stage = "all" => bug_id # Unbound
     /\ ~Truthy(GetItem(cache, version, "bug_id")))
        => error \notin {"TypeError", "ValueError"}

(***************************************************************************)
(* C7: an invocation of the pre-merge block that ends on a failed          *)
(* precondition (no ChangeLog, the switch to main declined, the pull       *)
(* declined) has changed nothing: no cache write, no tracker issue, no git *)
(* command, no file.                                                       *)
(***************************************************************************)
PreconditionFailed ==
    /\ pc = "done"
    /\ exitcode = "1"
    /\ error = "none"
    /\ log # <<>>
    /\ log[Len(log)] \in {Call("prepare_git_branch"), Prompt("Change current branch to main"),
                          Prompt("Pull latest upstream")}

C7_PreconditionFailureMutatesNothing ==
    (PreconditionFailed /\ stage \in PremergeStages /\ ~startPremerge) =>
        \A i \in 1..Len(log) : log[i][1] # "effect"

(***************************************************************************)
(* C17: is_point_release(v) is true exactly when v holds more than one "." *)
(* separator: false for 24.1, true for 24.1.2.                             *)
(***************************************************************************)
\* Fmt joins the components with ".": n components have n - 1 separators
Separators(parts) == Len(parts) - 1

C17_PointReleaseIffTwoSeparators ==
    verOut.fn = "is_point_release" =>
        /\ verOut.point \in BOOLEAN
        /\ verOut.point <=> Separators(verIn.parts) > 1
        /\ Len(SelectSeq(Fmt(verIn.parts), LAMBDA ch : ch = ".")) = Separators(verIn.parts)

C17_Witness ==
    /\ verOut.fn = "is_point_release"
    /\ verIn.parts = <<24, 1, 1>>
    /\ verOut.point = TRUE

(***************************************************************************)
(* C11: upload_to_github sends create-release, tarball asset, signature    *)
(* asset in that order; a request answered with a non-2xx status is the    *)
(* last thing the invocation does: no later request is sent and nothing is *)
(* cleaned up.                                                             *)
(***************************************************************************)
IsGithubPost(e) == e[1] = "effect" /\ e[2] = "github.post"

GithubSent == SelectSeq(log, IsGithubPost)

C11_GithubAbortsOnFirstFailure ==
    /\ Len(GithubSent) <= 3
    /\ \A i \in 1..Len(GithubSent) :
          /\ GithubSent[i][3][1] = <<"release", "tarball", "signature">>[i]
          /\ GithubSent[i][3][2] = "4xx" =>
                /\ i = Len(GithubSent)
                /\ log[Len(log)] = GithubSent[i]
                /\ pc = "done" /\ exitcode = "1" /\ error = "HTTPError"
    /\ error = "HTTPError" =>
          Len(GithubSent) > 0 /\ GithubSent[Len(GithubSent)][3][2] = "4xx"

C11_Witness ==
    /\ pc = "done"
    /\ error = "HTTPError"
    /\ Len(GithubSent) = 2
    /\ GithubSent[1][3] = <<"release", "2xx">>
    /\ GithubSent[2][3] = <<"tarball", "4xx">>

(***************************************************************************)
(* C12: when the Launchpad upload has completed and the GitHub upload then *)
(* fails, the invocation issues no operation after the failed request, so  *)
(* the tracker's release keeps what upload_to_launchpad saved.             *)
(***************************************************************************)
FirstIndex(e) == CHOOSE i \in 1..Len(log) : log[i] = e /\ \A j \in 1..(i - 1) : log[j] # e

C12_GithubFailureLeavesLaunchpad ==
    (error = "HTTPError" /\ Did("lp_save")) =>
        LET saved == FirstIndex(Effect("lp_save", version))
            called == FirstIndex(Call("upload_to_github"))
        IN  /\ pc = "done"
            /\ saved < called
            /\ \A i \in (called + 1)..Len(log) :
                  log[i] = Prompt("Enter Github token") \/ IsGithubPost(log[i])
            /\ log[Len(log)][2] = "github.post"

C12_Witness ==
    /\ pc = "done"
    /\ error = "HTTPError"
    /\ Did("lp.add_file") /\ Did("lp.release_notes") /\ Did("lp.changelog") /\ Did("lp_save")
    /\ Len(GithubSent) = 3


(***************************************************************************)
(* C13: a failed signing is followed by the "Try again" prompt and by      *)
(* nothing else; an affirmative answer runs gpg again, any other answer    *)
(* exits with code 1; build_tarball_and_sign returns, and an upload to     *)
(* Launchpad or GitHub happens, only after a gpg run of the same           *)
(* invocation has exited 0.                                                *)
(***************************************************************************)
SignFailed == Effect("gpg", <<"1">>)

SignSucceeded == Effect("gpg", <<"0">>)

TryAgain == Prompt("Try again")

IsUpload(e) ==
    e[2] \in {"Upload to launchpad", "upload_to_launchpad", "Upload to Github",
                 "upload_to_github", "lp.add_file", "lp_save", "github.post"}

EntriesOf(e) == {i \in 1..Len(log) : log[i] = e}

\* where the signing that succeeded is in the log (past its end: nowhere)
SignedAt ==
    IF \E i \in 1..Len(log) : log[i] = SignSucceeded
    THEN CHOOSE i \in 1..Len(log) : log[i] = SignSucceeded
    ELSE Len(log) + 1

C13_SigningGate ==
    /\ LET signed == SignedAt
       IN  \A i \in 1..Len(log) :
              /\ log[i] = SignFailed => i < Len(log) /\ log[i + 1] = TryAgain
              /\ log[i] = TryAgain =>
                    /\ i > 1 /\ log[i - 1] = SignFailed
                    /\ i = Len(log) => pc = "done" /\ exitcode = "1" /\ error = "none"
                    /\ i < Len(log) => log[i + 1] \in {SignFailed, SignSucceeded}
              /\ log[i] \in {SignFailed, SignSucceeded} =>
                    i > 1 /\ log[i - 1] \in {Effect("make-tarball", <<>>), TryAgain}
              /\ IsUpload(log[i]) => signed < i
    /\ heard.at = "build_tarball" /\ Did("make-tarball") =>
          /\ Cardinality(EntriesOf(TryAgain)) = Len(heard.checks)
          /\ Declined(heard.checks) <=> (pc = "done" /\ exitcode = "1")
          /\ Declined(heard.checks) <=> log[Len(log)] = TryAgain
          /\ ~Declined(heard.checks) <=> log[Len(log)] = SignSucceeded

C13_Witness ==
    /\ \E i \in EntriesOf(TryAgain) : i < Len(log) /\ log[i + 1] = SignSucceeded
    /\ Did("lp_save")
    /\ Did("github.post")

(***************************************************************************)
(* C14: a post-merge stage selected on its own whose cached prerequisite   *)
(* is absent (old_version for close-all-bugs, bug_id for build-and-upload  *)
(* and email) neither asks for nor derives the field, and does none of the *)
(* stage's external effects.                                               *)
(***************************************************************************)
Absent(k) == GetItem(cache, version, k) = PyNone

Asked(name) == \E i \in 1..Len(log) : log[i] = Prompt(name)

BuildAndUploadEffects ==
    {"make-tarball", "gpg", "lp.newMilestone", "lp.createProductRelease", "lp.add_file",
     "lp.release_notes", "lp.changelog", "lp_save", "github.post"}

C14_MissingPrerequisiteFailsFast ==
    /\ (pc # "idle" /\ stage = "close-all-bugs" /\ Absent("old_version")) =>
          /\ ~Called("get_old_version") /\ ~Asked("Old version") /\ ~Wrote("old_version")
          /\ ~Did("lp-bugs-released")
    /\ (pc # "idle" /\ stage \in {"build-and-upload", "email"} /\ Absent("bug_id")) =>
          /\ ~Called("create_release_bug") /\ ~Asked("Create a new bug")
          /\ ~Asked("Enter bug ID") /\ ~Wrote("bug_id")
          /\ ~Called("build_and_upload") /\ ~Asked("Build tarball for upload")
          /\ \A n \in BuildAndUploadEffects : ~Did(n)
          /\ ~Called("email")
          /\ pc = "done" => exitcode = "1"

C14_Witness ==
    /\ pc = "done"
    /\ stage = "build-and-upload"
    /\ Absent("bug_id")
    /\ Called("launchpad_login")
    /\ error = "TypeError"

(***************************************************************************)
(* C15: create_release_bug files a tracker issue only after the operator   *)
(* answered its prompt with y, Y or a blank line, and then returns the new *)
(* issue's identifier; after any other answer no issue is filed and the    *)
(* identifier returned and cached is the empty string.  The changelog is   *)
(* returned and cached either way.                                         *)
(***************************************************************************)
Agreed(response) == response \in {<<"y">>, <<"Y">>} \/ \A i \in 1..Len(response) : response[i] = " "

\* create_release_bug has just returned to main, which cached what it returned
BugStepDone == heard.at = "create_release_bug" /\ heard.checks = <<TRUE>>

C15_BugCreationIsGated ==
    /\ \A i \in 1..Len(log) :
          (log[i][1] = "effect" /\ log[i][2] = "create_bug") =>
              i > 1 /\ log[i - 1] = Prompt("Create a new bug")
    /\ BugStepDone =>
          /\ Persisted("changelog") = PyStr(DriverChangelog)
          /\ Persisted("bug_id") = bug_id
          /\ IF Agreed(heard.response)
             THEN /\ bug_id.t = "int"
                  /\ Did("create_bug")
                  /\ \E i \in 1..Len(log) : log[i] = Effect("create_bug", bug_id.s)
                  /\ nextBugId = IntOf(bug_id.s) + 1
             ELSE /\ bug_id = PyStr(<<>>)
                  /\ ~Did("create_bug")

C15_Witness ==
    /\ BugStepDone
    /\ heard.response = <<" ">>
    /\ Did("create_bug")
    /\ Persisted("bug_id") = PyInt(<<"1">>)

(***************************************************************************)
(* C16: an `all` invocation that passes the merge confirmation attempts    *)
(* tag-release, build-and-upload, close-all-bugs, upload-copr, email in    *)
(* that order, each after the previous one returned, and after an earlier  *)
(* invocation completed the pre-merge steps; once one of them raises or    *)
(* exits, no later one runs.                                               *)
(***************************************************************************)
PostMergeOrder ==
    <<"tag_release", "build_and_upload", "close_all_bugs", "upload_copr", "email">>

IsStageCall(e) == e[1] = "call" /\ \E k \in 1..Len(PostMergeOrder) : e[2] = PostMergeOrder[k]

\* the names of what each stage function shows and does between its call and
\* its return, its own call included
TagReleaseNames == {"tag_release", "Tag release and push", "git tag", "git push"}

BuildAndUploadNames ==
    {"build_and_upload", "upload_to_launchpad", "create_new_milestone", "upload_to_github",
     "Build tarball for upload", "Specify series", "Try again", "Upload to launchpad",
     "Create new milestone on launchpad", "Create next milestone now", "Next version",
     "Upload to Github", "Enter Github token"} \cup BuildAndUploadEffects

CloseAllBugsNames == {"close_all_bugs", "Close all bugs", "lp-bugs-released"}

UploadCoprNames ==
    {"upload_copr", "Build and upload to COPR", "run-container", "cache.set",
     "copr.create_from_file"}

\* the place in PostMergeOrder of the stage function an entry belongs to (0: none)
StageRank(e) ==
    IF e[2] \in BuildAndUploadNames THEN 2
    ELSE IF e[2] \in TagReleaseNames THEN 1
    ELSE IF e[2] \in CloseAllBugsNames THEN 3
    ELSE IF e[2] \in UploadCoprNames THEN 4
    ELSE IF e[2] = "email" THEN 5
    ELSE 0

MergeConfirmed ==
    /\ stage = "all"
    /\ Asked("Has git branch been merged")
    /\ ~(pc = "done" /\ log[Len(log)] = Prompt("Has git branch been merged"))

\* the stages begun so far
StagesBegun == IF log = <<>> THEN 0 ELSE StageRank(log[Len(log)])

C18_FlagImpliesBranchPrepared ==
    (pc # "idle" /\ startEmpty /\ Persisted("premerge-complete") = PyTrue) =>
        Called("prepare_git_branch")

(***************************************************************************)
(* C19: at the "Has git branch been merged" prompt of an `all` invocation  *)
(* every answer other than exactly y or Y, a blank one included, exits the *)
(* process with code 1 before any checkout, pull, tag, build, upload, bug  *)
(* closing, COPR build or cache write.                                     *)
(***************************************************************************)
MergeAnswered == heard.at = "merged"

C19_MergeDefaultsToNo ==
    MergeAnswered =>
        /\ stage = "all"
        /\ IF heard.response \in {<<"y">>, <<"Y">>}
           THEN pc = "cmp_168" /\ exitcode = "running"
           ELSE /\ pc = "done" /\ exitcode = "1" /\ error = "none"
                /\ log = <<Prompt("Has git branch been merged")>>
                /\ ~RanPostMerge
                /\ \A i \in 1..Len(log) : log[i][1] # "effect"
                /\ cache = CachedDictInit(file, version)

C19_Witness ==
    /\ MergeAnswered
    /\ heard.response = <<>>
    /\ pc = "done"
    /\ exitcode = "1"

(***************************************************************************)
(* C20: tag_release creates the signed tag for the release version, and    *)
(* pushes it, only when the operator agreed, HEAD's one-line description   *)
(* holds "Release <version>" and the branch is main; when a check fails    *)
(* neither command runs; the push runs only after the tag command          *)
(* succeeded.                                                              *)
(***************************************************************************)
TagAnswered == heard.at = "tag_release"

C20_TaggingSafety ==
    /\ \A i \in 1..Len(log) :
          /\ (log[i][1] = "effect" /\ log[i][2] = "git tag") =>
                log[i][3] = version /\ i > 1 /\ log[i - 1] = Prompt("Tag release and push")
          /\ (log[i][1] = "effect" /\ log[i][2] = "git push") =>
                i > 1 /\ log[i - 1] = Effect("git tag", version)
    /\ TagAnswered =>
          LET headIsRelease == heard.checks[1]
              onMain == heard.checks[2]
              tagOk == heard.checks[3]
          IN  /\ Did("git tag") => Agreed(heard.response) /\ headIsRelease /\ onMain /\ tagOk
              /\ Did("git push") => Did("git tag")
              /\ ~Agreed(heard.response) => ~Did("git tag") /\ ~Did("git push") /\ pc = "main_579"

C20_Witness ==
    /\ TagAnswered
    /\ Agreed(heard.response)
    /\ heard.checks[1]
    /\ ~heard.checks[2]
    /\ ~Did("git tag")
    /\ ~Did("git push")
    /\ pc = "main_579"


(***************************************************************************)
(* The store as the purge-cache stage meets it: earlier processes have     *)
(* built a CachedDict and used it, then main is invoked with purge-cache   *)
(* for some version, any number of times.                                  *)
(***************************************************************************)
NextFrame ==
    \/ \E v \in Versions : pc = "idle" /\ NewCachedDict(v)
    \/ \E k \in CacheKeys, x \in CacheValues : pc = "idle" /\ CacheSet(k, x)
    \/ \E k \in CacheKeys : pc = "idle" /\ CacheGet(k)
    \/ pc = "idle" /\ CachePurge
    \/ \E v \in Versions : Invoke("purge-cache", v) /\ heard' = NoAnswer
    \/ MainPurgeCache /\ heard' = NoAnswer

SpecFrame == InitCache /\ [][NextFrame]_vars

\* what a fresh process would load from the file
Reload(f) == IF f.exists THEN JsonLoad(f.text) ELSE EmptyDict

\* field k of version v in the dict c, None when there is none
Field(c, v, k) == IF v \in DOMAIN c /\ k \in DOMAIN c[v] THEN c[v][k] ELSE PyNone

\* the step left field k of version v as it was, in memory and in the file
Kept(v, k) ==
    /\ Field(cache', v, k) = Field(cache, v, k)
    /\ Field(Reload(file'), v, k) = Field(Reload(file), v, k)

SetFrame ==
    \A k \in CacheKeys, x \in CacheValues :
        CacheSet(k, x) =>
            \A w \in Versions, f \in CacheKeys :
                (w # version \/ f # k) => Kept(w, f)

PurgeFrame ==
    (CachePurge \/ MainPurgeCache) =>
        \A w \in Versions \ {version}, f \in CacheKeys : Kept(w, f)

PurgeStageOnly ==
    MainPurgeCache =>
        /\ log' = <<Effect("cache.purge", version)>>
        /\ pc' = "done"
        /\ exitcode' = "0"
        /\ \A f \in CacheKeys : Field(Reload(file'), version, f) = PyNone

(***************************************************************************)
(* C21: a set changes only the field it names of the version the           *)
(* CachedDict was built for, and a purge only that version's entry: every  *)
(* field of every other version (and, for a set, every other field of the  *)
(* same version) reads the same before and after the step, both in memory  *)
(* and in what a fresh process loads from the file.  The purge-cache stage *)
(* does this purge and nothing else, and exits with code 0.                *)
(***************************************************************************)
C21_CacheFrame == [][SetFrame /\ PurgeFrame /\ PurgeStageOnly]_vars

C21_Witness ==
    /\ stage = "purge-cache"
    /\ pc = "done"
    /\ exitcode = "0"
    /\ \E w \in Versions \ {version} :
        \A f \in CacheKeys : Field(Reload(file), w, f) # PyNone


(***************************************************************************)
(* Two invocations at once.  Each process holds its own CachedDict, loaded *)
(* from the file when it was constructed; nothing locks the file, so the   *)
(* load of __init__ and the load-free dump of _save_cache of one process   *)
(* interleave freely with those of the other.                              *)
(***************************************************************************)
MaxRaceOps == 4

RaceValues == {PyInt(<<"1">>), PyTrue}

Event(p, op, v, k) == [p |-> p, op |-> op, v |-> v, k |-> k]

ProcNew(p, v) ==
    /\ Len(history) < MaxRaceOps
    /\ procs' = [procs EXCEPT ![p] =
                    [live |-> TRUE, version |-> v, cache |-> CachedDictInit(file, v)]]
    /\ history' = Append(history, Event(p, "init", v, ""))
    /\ UNCHANGED <<cacheVars, verVars, tplVars, drvVars>>

ProcSet(p, k, x) ==
    /\ Len(history) < MaxRaceOps
    /\ procs[p].live
    /\ procs' = [procs EXCEPT ![p].cache = SetItem(@, procs[p].version, k, x)]
    /\ file' = SaveCache(procs'[p].cache, file)
    /\ history' = Append(history, Event(p, "set", procs[p].version, k))
    /\ UNCHANGED <<cache, version, live, cacheGhost, verVars, tplVars, drvVars>>

NextRace ==
    \/ \E p \in Procs, v \in Versions : ProcNew(p, v)
    \/ \E p \in Procs, k \in CacheKeys, x \in RaceValues : ProcSet(p, k, x)

SpecRace == InitCache /\ [][NextRace]_vars

\* the last two operations: one process set a field of its version, then the
\* other process set a field of a different version
First == history[Len(history) - 1]

Second == history[Len(history)]

SetThenSet ==
    /\ Len(history) >= 2
    /\ First.op = "set"
    /\ Second.op = "set"
    /\ First.p # Second.p
    /\ First.v # Second.v

\* get(v, k) in a process started now
ReloadGet(v, k) == GetItem(CachedDictInit(file, v), v, k)

\* both processes were constructed before either wrote: they loaded the same file
SameFile ==
    /\ Len(history) = 4
    /\ history[1].op = "init"
    /\ history[2].op = "init"
    /\ history[1].p = First.p
    /\ history[2].p = Second.p

(***************************************************************************)
(* C22: when one process has set a field of its version and the other      *)
(* process then sets a field of a different version, the file holds for    *)
(* the first process's field what the second process had loaded at its     *)
(* construction, not what the first process wrote; when the second process *)
(* had loaded nothing for it, a reload followed by get returns None        *)
(* although the first process's own dict still holds the value.            *)
(***************************************************************************)
C22_UnlockedUseLosesUpdates ==
    SetThenSet =>
        ReloadGet(First.v, First.k) = Field(procs[Second.p].cache, First.v, First.k)

C22_Witness ==
    /\ SetThenSet
    /\ SameFile
    /\ GetItem(procs[First.p].cache, First.v, First.k) # PyNone
    /\ ReloadGet(First.v, First.k) = PyNone

====
